---- MODULE Spec2Model ----
(***************************************************************************)
(* Model of mailsorter/archive.py: the MailArchive context manager (a      *)
(* deduplicating, year-month partitioned mbox store) and the process       *)
(* ingestion driver.                                                       *)
(*                                                                         *)
(* Time is kept at a granularity of one hour: a Date header carries a      *)
(* year, month, day, hour and a UTC offset in hours.  File names are       *)
(* sequences of one-character strings so that "%04d%02d" and the regular   *)
(* expression of __iter__ can be computed character by character.          *)
(***************************************************************************)
EXTENDS Integers, Sequences, FiniteSets, TLC

\* ------------------------------------------------------------------ bounds
MaxScopes == 2      \* __enter__ calls made by the client of Spec
MaxOpens == 2       \* mailbox.mbox() constructions per name and scope
MaxKeys == 3        \* keys of one source mailbox given to process
MaxEntries == 2     \* entries given to one call of process

\* --------------------------------------------------------------- constants
MINYEAR == 1                \* datetime.MINYEAR
MAXYEAR == 9999             \* datetime.MAXYEAR

\* ------------------------------------------------------------------- names
DigitChar == <<"0", "1", "2", "3", "4", "5", "6", "7", "8", "9">>

IsDigit(c) == \E i \in 1..10 : DigitChar[i] = c

RECURSIVE Digits(_)
\* decimal digits of a natural number, most significant first ("%d")
Digits(n) == IF n < 10 THEN <<DigitChar[n + 1]>>
             ELSE Append(Digits(n \div 10), DigitChar[(n % 10) + 1])

RECURSIVE ZeroPad(_, _)
\* "%0wd": pad on the left with zeros to at least w characters
ZeroPad(s, w) == IF Len(s) >= w THEN s ELSE ZeroPad(<<"0">> \o s, w)

\* "%04d%02d" % (year, month)
FormatName(year, month) == ZeroPad(Digits(year), 4) \o ZeroPad(Digits(month), 2)

SEEN_FNAME == <<"s", "e", "e", "n", ".", "p", "i", "c", "k", "l", "e">>
NotesName == <<"n", "o", "t", "e", "s", ".", "t", "x", "t">>
BackupName == <<"2", "0", "2", "4", "0", "3", ".", "b", "a", "k">>

\* re.match(r'[0-9]{6}', name): any year
ReMatch_any_year(name) == /\ Len(name) >= 6
                          /\ \A i \in 1..6 : IsDigit(name[i])

\* re.match(r'[12][0-9]{5}', name): the pattern is anchored at the start only
ReMatch(name) == /\ Len(name) >= 6
                 /\ name[1] \in {"1", "2"}
                 /\ \A i \in 2..6 : IsDigit(name[i])

\* ------------------------------------------------------------------- dates
IsLeap(y) == (y % 4 = 0) /\ ((y % 100 # 0) \/ (y % 400 = 0))

DAYS_IN_MONTH == <<31, 28, 31, 30, 31, 30, 31, 31, 30, 31, 30, 31>>
DAYS_BEFORE_MONTH == <<0, 31, 59, 90, 120, 151, 181, 212, 243, 273, 304, 334>>

DaysBeforeYear(year) == LET y == year - 1
                        IN y * 365 + (y \div 4) - (y \div 100) + (y \div 400)

DaysBeforeMonth(y, m) == DAYS_BEFORE_MONTH[m] + (IF m > 2 /\ IsLeap(y) THEN 1 ELSE 0)

\* datetime.date(y, m, d).toordinal()
Ymd2Ord(y, m, d) == DaysBeforeYear(y) + DaysBeforeMonth(y, m) + d

EPOCH_ORD == Ymd2Ord(1970, 1, 1)

\* calendar.timegm, in hours since the epoch
Timegm(y, m, d, h) == (Ymd2Ord(y, m, 1) - EPOCH_ORD + d - 1) * 24 + h

\* ordinal -> [year, month, day] (datetime._ord2ymd)
Ord2Ymd(ord) ==
    LET n0 == ord - 1
        n400 == n0 \div 146097
        r400 == n0 % 146097
        n100 == r400 \div 36524
        r100 == r400 % 36524
        n4 == r100 \div 1461
        r4 == r100 % 1461
        n1 == r4 \div 365
        n == r4 % 365
        year == n400 * 400 + 1 + n100 * 100 + n4 * 4 + n1
    IN IF n1 = 4 \/ n100 = 4
       THEN [year |-> year - 1, month |-> 12, day |-> 31]
       ELSE LET leap == n1 = 3 /\ (n4 # 24 \/ n100 = 3)
                m0 == (n + 50) \div 32
                p0 == DAYS_BEFORE_MONTH[m0] + (IF m0 > 2 /\ leap THEN 1 ELSE 0)
                month == IF p0 > n THEN m0 - 1 ELSE m0
                prec == IF p0 > n
                        THEN p0 - (DAYS_IN_MONTH[month]
                                   + (IF month = 2 /\ leap THEN 1 ELSE 0))
                        ELSE p0
            IN [year |-> year, month |-> month, day |-> n - prec + 1]

\* A Date header as the message carries it.  kind "absent": no header;
\* "empty": the header is the empty string; "garbage": text that is no date;
\* "date": a date with the fields below (hasTz FALSE: written without a zone)
DateHeader(kind, y, m, d, h, hasTz, tz) ==
    [kind |-> kind, year |-> y, month |-> m, day |-> d, hour |-> h,
     hasTz |-> hasTz, tz |-> tz]

\* truth value of msg.get('Date'): None and '' are false
HeaderTruthy(d) == d.kind \notin {"absent", "empty"}

\* email.utils.parsedate_tz: nothing when the text is no date; a date written
\* without a zone gets offset 0
ParsedateTz(d) ==
    [ok |-> d.kind = "date", year |-> d.year, month |-> d.month,
     day |-> d.day, hour |-> d.hour, tz |-> IF d.hasTz THEN d.tz ELSE 0]

\* mktime_tz that takes the date as written for UTC
MktimeTz_local(t) ==
    IF t.year < MINYEAR \/ t.year > MAXYEAR THEN [raised |-> TRUE, ts |-> 0]
    ELSE [raised |-> FALSE, ts |-> Timegm(t.year, t.month, t.day, t.hour)]

\* email.utils.mktime_tz: calendar.timegm(data) - data[9]; datetime.date
\* refuses a year outside MINYEAR..MAXYEAR with ValueError
MktimeTz(t) ==
    IF t.year < MINYEAR \/ t.year > MAXYEAR THEN [raised |-> TRUE, ts |-> 0]
    ELSE [raised |-> FALSE, ts |-> Timegm(t.year, t.month, t.day, t.hour) - t.tz]

\* datetime.datetime.utcfromtimestamp; ValueError outside MINYEAR..MAXYEAR
UtcFromTimestamp(ts) ==
    LET ymd == Ord2Ymd((ts \div 24) + EPOCH_ORD)
    IN [raised |-> ymd.year < MINYEAR \/ ymd.year > MAXYEAR,
        year |-> ymd.year, month |-> ymd.month, day |-> ymd.day,
        hour |-> ts % 24]

\* ---------------------------------------------------------------- messages
\* A message as read from a source mailbox: the mbox envelope line ("From "
\* line) kept by mailbox.mboxMessage, the Date and From headers, the body
Message(envelope, date, from, body) ==
    [envelope |-> envelope, Date |-> date, From |-> from, body |-> body]

\* 15 Mar 2024 10:00 +0000
MsgMarch == Message("e1", DateHeader("date", 2024, 3, 15, 10, TRUE, 0), "A@X.COM", "march")
\* the same mail found in another mailbox: only the envelope line differs
MsgMarchCopy == Message("e2", DateHeader("date", 2024, 3, 15, 10, TRUE, 0), "A@X.COM", "march")
\* 31 Dec 2023 23:00 -0100, which is 1 Jan 2024 00:00 UTC
MsgNewYear == Message("e1", DateHeader("date", 2023, 12, 31, 23, TRUE, -1), "b@y.com", "newyear")
\* no Date header
MsgNoDate == Message("e1", DateHeader("absent", 0, 0, 0, 0, FALSE, 0), "c@z.org", "nodate")
\* Date: not a date
MsgBadDate == Message("e1", DateHeader("garbage", 0, 0, 0, 0, FALSE, 0), "c@z.org", "baddate")
\* 1 Jan 99999 00:00 +0000, accepted by parsedate_tz
MsgFarYear == Message("e1", DateHeader("date", 99999, 1, 1, 0, TRUE, 0), "", "faryear")

Msgs == {MsgMarch, MsgMarchCopy, MsgNewYear, MsgNoDate, MsgBadDate, MsgFarYear}

\* msg.get('From') of a message without From header: None
NoHeader == "None"

\* 15 Mar 2024 11:00 +0000, no From header
MsgNoFrom == Message("e1", DateHeader("date", 2024, 3, 15, 11, TRUE, 0), NoHeader, "nofrom")
\* 15 Mar 2024 12:00 +0000, a From header without text
MsgEmptyFrom == Message("e1", DateHeader("date", 2024, 3, 15, 12, TRUE, 0), "", "emptyfrom")
\* 1 Jan 0999 00:00 +0000
MsgYear999 == Message("e1", DateHeader("date", 999, 1, 1, 0, TRUE, 0), "c@z.org", "y999")
\* 1 Jan 3000 00:00 +0000
MsgYear3000 == Message("e1", DateHeader("date", 3000, 1, 1, 0, TRUE, 0), "Ann <ANN@X.COM>", "y3000")

\* the messages of the archives that are exported
ExportMsgs == {MsgMarch, MsgNoFrom, MsgEmptyFrom, MsgYear999, MsgYear3000}

\* bytes(msg): the headers and the body, without the envelope line
Bytes(m) == [Date |-> m.Date, From |-> m.From, body |-> m.body]

\* hashlib.md5(content).hexdigest(): a digest that depends on every byte
\* (collisions of MD5 are outside the model)
Md5(content) == [hexdigest |-> content]

\* ------------------------------------------------------------------- state
VARIABLES
    files,      \* archive directory: file name -> messages an mbox reads in it
    seenFile,   \* seen.pickle: [exists, data]
    isOpen,     \* between __enter__ and __exit__ (self.boxes, self.seen exist)
    seen,       \* self.seen
    boxes,      \* self.boxes: file name -> handle
    opens,      \* file name -> mailbox.mbox() constructions in this scope
    unclosed,   \* handles constructed and not yet closed
    yielded,    \* messages the iteration just run produced
    opened,     \* names of the files the iteration opened, in order
    last,       \* the last call on the archive and how it ended
    accepted,   \* byte contents whose add got past the duplicate test
    enters,     \* number of __enter__ calls
    exits,      \* number of __exit__ calls
    pc,         \* where a call of process stands
    entriesLeft, \* entries of the call not yet processed
    nKeys,      \* number of keys of the source mailbox of the entry
    idx,        \* keys of it already visited
    counts,     \* the local variables ok, duplicate, error
    tally,      \* what the reads and adds of the entry did
    summaries,  \* the summary lines logged so far
    walk,       \* files os.walk found under a directory entry, by kind
    output,     \* rows export wrote to its output
    isOpenB,    \* a second MailArchive on the directory: inside its scope
    seenB,      \* its self.seen
    boxesB,     \* its self.boxes
    opensB,     \* its mailbox.mbox() constructions
    unclosedB,  \* its handles constructed and not yet closed
    entersB     \* its __enter__ calls

archiveVars == <<files, seenFile, isOpen, seen, boxes, opens, unclosed, yielded,
                 opened, last, accepted, enters, exits>>
processVars == <<pc, entriesLeft, nKeys, idx, counts, tally, summaries, walk>>
exportVars == <<output>>
secondVars == <<isOpenB, seenB, boxesB, opensB, unclosedB, entersB>>
vars == <<archiveVars, processVars, exportVars, secondVars>>

EmptyMap == [n \in {} |-> 0]

Range(f) == {f[x] : x \in DOMAIN f}

\* f with key k set to v, k new or not
Put(f, k, v) == [x \in DOMAIN f \cup {k} |-> IF x = k THEN v ELSE f[x]]

Handle(name, gen) == [name |-> name, gen |-> gen]
NoHandle == Handle(<<>>, 0)

Call(op, m, outcome) == [op |-> op, msg |-> m, outcome |-> outcome]
NoMsg == Message("", DateHeader("absent", 0, 0, 0, 0, FALSE, 0), "", "")

\* directories the archive is created in: a new one, one that holds
\* notes.txt (a text without any "From " line), and one that holds a backup
\* copy of a partition
EmptyDir == EmptyMap
NotesDir == Put(EmptyMap, NotesName, <<>>)
BackupDir == Put(EmptyMap, BackupName, <<MsgMarch>>)
InitialDirs == {EmptyDir, NotesDir, BackupDir}

\* the part of the state the archive methods work on
Archive == [boxes |-> boxes, files |-> files, opens |-> opens,
            unclosed |-> unclosed, seen |-> seen, ret |-> NoHandle,
            outcome |-> "ok", yielded |-> <<>>, opened |-> <<>>]

\* bool(outbox): mailbox.Mailbox defines __len__, so a handle is true iff
\* its mailbox holds a message
HandleTruthy(st, h) == Len(st.files[h.name]) > 0

\* MailArchive._get_box_by_name; mailbox.mbox(path) creates a missing file
get_box_by_name(st, name) ==
    IF name \in DOMAIN st.boxes /\ HandleTruthy(st, st.boxes[name])
    THEN [st EXCEPT !.ret = st.boxes[name]]
    ELSE LET gen == (IF name \in DOMAIN st.opens THEN st.opens[name] ELSE 0) + 1
             outbox == Handle(name, gen)
         IN [st EXCEPT !.files = IF name \in DOMAIN st.files THEN st.files
                                 ELSE Put(st.files, name, <<>>),
                       !.opens = Put(st.opens, name, gen),
                       !.unclosed = st.unclosed \cup {outbox},
                       !.boxes = Put(st.boxes, name, outbox),
                       !.ret = outbox]

\* MailArchive._get_box_by_timestamp
get_box_by_timestamp(st, timestamp) ==
    get_box_by_name(st, FormatName(timestamp.year, timestamp.month))

\* outbox.add(msg) of mailbox.mbox: append to the file of the handle
mbox_add(st, outbox, m) ==
    [st EXCEPT !.files = [st.files EXCEPT ![outbox.name] = Append(@, m)]]

\* MailArchive.add from the Date header on: the partition is found and the
\* message appended; outcome is "ok" or the exception raised
add_store(st, m) ==
    LET parsed == ParsedateTz(m.Date)
        stamp == MktimeTz(parsed)
        utc == UtcFromTimestamp(stamp.ts)
    IN IF ~HeaderTruthy(m.Date) THEN [st EXCEPT !.outcome = "UndatedError"]
       ELSE IF ~parsed.ok THEN [st EXCEPT !.outcome = "UndatedError"]
       ELSE IF stamp.raised \/ utc.raised THEN [st EXCEPT !.outcome = "ValueError"]
       ELSE LET s2 == get_box_by_timestamp(st, utc)
            IN [mbox_add(s2, s2.ret, m) EXCEPT !.outcome = "ok"]

\* add without the test of the ledger
add_no_dedup(st, m) ==
    add_store([st EXCEPT !.seen = st.seen \cup {Md5(Bytes(m))}], m)

\* add that records the fingerprint only once the message is stored
add_date_first(st, m) ==
    IF Md5(Bytes(m)) \in st.seen THEN [st EXCEPT !.outcome = "DuplicateError"]
    ELSE LET r == add_store(st, m)
         IN IF r.outcome = "ok" THEN [r EXCEPT !.seen = r.seen \cup {Md5(Bytes(m))}]
            ELSE r

\* add that stores the message and leaves the ledger as it was
add_forget(st, m) ==
    IF Md5(Bytes(m)) \in st.seen THEN [st EXCEPT !.outcome = "DuplicateError"]
    ELSE add_store(st, m)

\* add that looks up the partition before it tests the ledger
add_box_first(st, m) ==
    LET r == add_store(st, m)
    IN IF Md5(Bytes(m)) \in st.seen
       THEN [st EXCEPT !.outcome = "DuplicateError",
                       !.boxes = IF r.outcome = "ok" THEN r.boxes ELSE st.boxes,
                       !.opens = IF r.outcome = "ok" THEN r.opens ELSE st.opens,
                       !.unclosed = IF r.outcome = "ok" THEN r.unclosed ELSE st.unclosed]
       ELSE add_store([st EXCEPT !.seen = st.seen \cup {Md5(Bytes(m))}], m)

\* MailArchive.add; outcome is "ok" or the exception raised
add(st, m) ==
    LET md5 == Md5(Bytes(m))
    IN IF md5 \in st.seen THEN [st EXCEPT !.outcome = "DuplicateError"]
       ELSE add_store([st EXCEPT !.seen = st.seen \cup {md5}], m)

\* a listing that names the partition of March 2024 whether it is there or not
Listdir_with_month(st, ledger) ==
    DOMAIN st.files \cup {FormatName(2024, 3)}
    \cup (IF ledger.exists THEN {SEEN_FNAME} ELSE {})

\* os.listdir(self.directory)
Listdir(st, ledger) == DOMAIN st.files \cup (IF ledger.exists THEN {SEEN_FNAME} ELSE {})

RECURSIVE Orders(_)
\* the orders in which os.listdir may return a set of names
Orders(S) == IF S = {} THEN {<<>>}
             ELSE UNION {{<<x>> \o o : o \in Orders(S \ {x})} : x \in S}

RECURSIVE iter(_, _)
\* MailArchive.__iter__ run to its end over the names of a listing
iter(st, names) ==
    IF names = <<>> THEN st
    ELSE IF ~ReMatch(Head(names)) THEN iter(st, Tail(names))
    ELSE LET s1 == get_box_by_name(st, Head(names))
         IN iter([s1 EXCEPT !.yielded = st.yielded \o s1.files[s1.ret.name],
                            !.opened = Append(st.opened, Head(names))],
                 Tail(names))

\* __enter__ that starts every scope with an empty ledger
enter_fresh(ledger) == {}

\* MailArchive.__enter__: the ledger read from seen.pickle, or set()
enter(ledger) == IF ledger.exists THEN ledger.data ELSE {}

\* __exit__ that adds its ledger to the one the file holds by then
exit_merge(st) ==
    [exists |-> TRUE,
     data |-> st.seen \cup (IF seenFile.exists THEN seenFile.data ELSE {})]

\* __exit__ that writes no ledger
exit_nothing(st) == [exists |-> FALSE, data |-> {}]

\* MailArchive.__exit__: what pickle.dump writes
exit(st) == [exists |-> TRUE, data |-> st.seen]

\* handles left open after __exit__ closed every value of self.boxes
exit_close(st) == st.unclosed \ Range(st.boxes)

\* MailArchive.add when outbox.add(msg) raises OSError: the mailbox is
\* opened and cached, and mailbox.mbox truncates the file back to where it
\* was before it raises again
add_io_error(st, m) ==
    LET r == add(st, m)
    IN IF r.outcome # "ok" THEN r
       ELSE [r EXCEPT !.files = [r.files EXCEPT ![r.ret.name] = SubSeq(@, 1, Len(@) - 1)],
                      !.outcome = "OSError"]

Counts(ok, duplicate, error) == [ok |-> ok, duplicate |-> duplicate, error |-> error]
Tally(addOk, addDup, addUndated, decode, keyError, visited) ==
    [addOk |-> addOk, addDup |-> addDup, addUndated |-> addUndated,
     decode |-> decode, keyError |-> keyError, visited |-> visited]

\* -------------------------------------------------------------- the client
Init ==
    /\ files \in InitialDirs
    /\ seenFile = [exists |-> FALSE, data |-> {}]
    /\ isOpen = FALSE
    /\ seen = {}
    /\ boxes = EmptyMap
    /\ opens = EmptyMap
    /\ unclosed = {}
    /\ yielded = <<>>
    /\ opened = <<>>
    /\ last = Call("init", NoMsg, "ok")
    /\ accepted = {}
    /\ enters = 0
    /\ exits = 0
    /\ pc = "idle"
    /\ entriesLeft = 0
    /\ nKeys = 0
    /\ idx = 0
    /\ counts = Counts(0, 0, 0)
    /\ tally = Tally(0, 0, 0, 0, 0, 0)
    /\ summaries = <<>>
    /\ walk = <<>>
    /\ output = <<>>
    /\ isOpenB = FALSE
    /\ seenB = {}
    /\ boxesB = EmptyMap
    /\ opensB = EmptyMap
    /\ unclosedB = {}
    /\ entersB = 0

\* the archive state after a method returned or raised
Commit(st) ==
    /\ boxes' = st.boxes
    /\ files' = st.files
    /\ opens' = st.opens
    /\ unclosed' = st.unclosed
    /\ seen' = st.seen

WithinOpens(st) == \A n \in DOMAIN st.opens : st.opens[n] <= MaxOpens

\* MailArchive(directory).__enter__()
EnterScope ==
    /\ ~isOpen
    /\ isOpen' = TRUE
    /\ boxes' = EmptyMap
    /\ opens' = EmptyMap
    /\ seen' = enter(seenFile)
    /\ enters' = enters + 1
    /\ last' = Call("enter", NoMsg, "ok")
    /\ yielded' = <<>>
    /\ opened' = <<>>
    /\ UNCHANGED <<files, seenFile, unclosed, accepted, exits>>

\* archive.__exit__(...)
ExitScope ==
    /\ isOpen
    /\ unclosed' = exit_close(Archive)
    /\ boxes' = EmptyMap
    /\ seenFile' = exit(Archive)
    /\ seen' = {}
    /\ isOpen' = FALSE
    /\ exits' = exits + 1
    /\ last' = Call("exit", NoMsg, "ok")
    /\ yielded' = <<>>
    /\ opened' = <<>>
    /\ UNCHANGED <<files, opens, accepted, enters>>

\* with MailArchive(directory) as archive:
Enter ==
    /\ pc = "idle"
    /\ enters < MaxScopes
    /\ EnterScope
    /\ UNCHANGED <<processVars, exportVars, secondVars>>

\* archive.add(m)
Add(m) ==
    /\ pc = "idle"
    /\ isOpen
    /\ LET st == add(Archive, m)
       IN /\ WithinOpens(st)
          /\ Commit(st)
          /\ last' = Call("add", m, st.outcome)
          /\ accepted' = IF st.outcome = "DuplicateError" THEN accepted
                         ELSE accepted \cup {Bytes(m)}
    /\ yielded' = <<>>
    /\ opened' = <<>>
    /\ UNCHANGED <<seenFile, isOpen, enters, exits>>
    /\ UNCHANGED <<processVars, exportVars, secondVars>>

\* archive.add(m) when the append to the partition fails
AddFails(m) ==
    /\ pc = "idle"
    /\ isOpen
    /\ add(Archive, m).outcome = "ok"
    /\ LET st == add_io_error(Archive, m)
       IN /\ WithinOpens(st)
          /\ Commit(st)
          /\ last' = Call("add", m, st.outcome)
          /\ accepted' = accepted \cup {Bytes(m)}
    /\ yielded' = <<>>
    /\ opened' = <<>>
    /\ UNCHANGED <<seenFile, isOpen, enters, exits>>
    /\ UNCHANGED <<processVars, exportVars, secondVars>>

\* for msg in archive: ...
Iterate ==
    /\ pc = "idle"
    /\ isOpen
    /\ \E st \in {iter(Archive, names) : names \in Orders(Listdir(Archive, seenFile))} :
         /\ WithinOpens(st)
         /\ Commit(st)
         /\ yielded' = st.yielded
         /\ opened' = st.opened
    /\ last' = Call("iter", NoMsg, "ok")
    /\ UNCHANGED <<seenFile, isOpen, accepted, enters, exits>>
    /\ UNCHANGED <<processVars, exportVars, secondVars>>

\* leaving the with block
Exit ==
    /\ pc = "idle"
    /\ ExitScope
    /\ UNCHANGED <<processVars, exportVars, secondVars>>

Next ==
    \/ Enter
    \/ \E m \in Msgs : Add(m)
    \/ Iterate
    \/ Exit

Spec == Init /\ [][Next]_vars

\* the messages of the client whose writes may fail
FaultMsgs == {MsgMarch, MsgNewYear, MsgNoDate}

\* the client of Spec on a disk whose writes may fail
NextFault ==
    \/ Enter
    \/ \E m \in FaultMsgs : Add(m)
    \/ \E m \in FaultMsgs : AddFails(m)
    \/ Iterate
    \/ Exit

SpecFault == Init /\ [][NextFault]_vars

\* ------------------------------------------------------------ process(...)
\* the messages the source mailboxes hold
SourceMsgs == {MsgMarch, MsgMarchCopy, MsgNoDate, MsgFarYear}

\* what box[key] does: a message, or one of the exceptions
Read(kind, m) == [kind |-> kind, msg |-> m]
Reads == {Read("msg", m) : m \in SourceMsgs}
         \cup {Read(k, NoMsg) : k \in {"KeyError", "UnicodeDecodeError", "OSError"}}

\* the try statement with UndatedError counted as a duplicate
classify_undated_duplicate(c, outcome) ==
    IF outcome = "ok" THEN [c EXCEPT !.ok = @ + 1] @@ [propagate |-> FALSE]
    ELSE IF outcome = "KeyError" THEN c @@ [propagate |-> FALSE]
    ELSE IF outcome = "UnicodeDecodeError" THEN [c EXCEPT !.error = @ + 1] @@ [propagate |-> FALSE]
    ELSE IF outcome \in {"DuplicateError", "UndatedError"}
         THEN [c EXCEPT !.duplicate = @ + 1] @@ [propagate |-> FALSE]
    ELSE c @@ [propagate |-> TRUE]

\* the try statement with a last clause "except Exception: error += 1"
classify_catch_all(c, outcome) ==
    IF outcome = "ok" THEN [c EXCEPT !.ok = @ + 1] @@ [propagate |-> FALSE]
    ELSE IF outcome = "KeyError" THEN c @@ [propagate |-> FALSE]
    ELSE IF outcome = "DuplicateError" THEN [c EXCEPT !.duplicate = @ + 1] @@ [propagate |-> FALSE]
    ELSE [c EXCEPT !.error = @ + 1] @@ [propagate |-> FALSE]

\* the try statement of the loop: the counters after one key, and whether
\* the exception leaves the loop
classify(c, outcome) ==
    IF outcome = "ok" THEN [c EXCEPT !.ok = @ + 1] @@ [propagate |-> FALSE]
    ELSE IF outcome = "KeyError" THEN c @@ [propagate |-> FALSE]
    ELSE IF outcome = "UnicodeDecodeError" THEN [c EXCEPT !.error = @ + 1] @@ [propagate |-> FALSE]
    ELSE IF outcome = "DuplicateError" THEN [c EXCEPT !.duplicate = @ + 1] @@ [propagate |-> FALSE]
    ELSE IF outcome = "UndatedError" THEN [c EXCEPT !.error = @ + 1] @@ [propagate |-> FALSE]
    ELSE c @@ [propagate |-> TRUE]

\* what happened at one key, by kind
Record(t, r, outcome) ==
    [t EXCEPT !.visited = @ + 1,
              !.addOk = @ + (IF r.kind = "msg" /\ outcome = "ok" THEN 1 ELSE 0),
              !.addDup = @ + (IF r.kind = "msg" /\ outcome = "DuplicateError" THEN 1 ELSE 0),
              !.addUndated = @ + (IF r.kind = "msg" /\ outcome = "UndatedError" THEN 1 ELSE 0),
              !.decode = @ + (IF r.kind = "UnicodeDecodeError" THEN 1 ELSE 0),
              !.keyError = @ + (IF r.kind = "KeyError" THEN 1 ELSE 0)]

\* process(archive_dir, *entries) is called with files as entries
ProcCall ==
    /\ pc = "idle"
    /\ ~isOpen
    /\ \E n \in 1..MaxEntries : entriesLeft' = n
    /\ pc' = "entry"
    /\ UNCHANGED archiveVars
    /\ UNCHANGED <<nKeys, idx, counts, tally, summaries, walk>>
    /\ UNCHANGED <<exportVars, secondVars>>

\* box = mailbox.mbox(entry); with MailArchive(archive_dir) as archive:
\* ok, duplicate, error = 0, 0, 0
ProcEntry ==
    /\ pc = "entry"
    /\ entriesLeft > 0
    /\ \E n \in 0..MaxKeys : nKeys' = n
    /\ EnterScope
    /\ idx' = 0
    /\ counts' = Counts(0, 0, 0)
    /\ tally' = Tally(0, 0, 0, 0, 0, 0)
    /\ pc' = "keys"
    /\ UNCHANGED <<entriesLeft, summaries, walk>>
    /\ UNCHANGED <<exportVars, secondVars>>

\* one round of: for key in box.iterkeys(): try: ... except ..., the read
\* of the key being one of R
ProcKeyFrom(R) ==
    /\ pc = "keys"
    /\ idx < nKeys
    /\ \E r \in R :
         LET st == IF r.kind = "msg" THEN add(Archive, r.msg)
                   ELSE [Archive EXCEPT !.outcome = r.kind]
             c == classify(counts, st.outcome)
         IN /\ WithinOpens(st)
            /\ Commit(st)
            /\ last' = Call(IF r.kind = "msg" THEN "add" ELSE "read", r.msg, st.outcome)
            /\ accepted' = IF r.kind = "msg" /\ st.outcome # "DuplicateError"
                           THEN accepted \cup {Bytes(r.msg)} ELSE accepted
            /\ counts' = Counts(c.ok, c.duplicate, c.error)
            /\ tally' = Record(tally, r, st.outcome)
            /\ pc' = IF c.propagate THEN "unwinding" ELSE "keys"
    /\ idx' = idx + 1
    /\ yielded' = <<>>
    /\ opened' = <<>>
    /\ UNCHANGED <<seenFile, isOpen, enters, exits>>
    /\ UNCHANGED <<entriesLeft, nKeys, summaries, walk>>
    /\ UNCHANGED <<exportVars, secondVars>>

\* one round of the loop over a source mailbox
ProcKey == ProcKeyFrom(Reads)

\* logger.info("%s: %d OK, %d duplicate(s), %d error(s)" % ...)
ProcSummary ==
    /\ pc = "keys"
    /\ idx = nKeys
    /\ summaries' = Append(summaries, counts)
    /\ pc' = "exiting"
    /\ UNCHANGED archiveVars
    /\ UNCHANGED <<entriesLeft, nKeys, idx, counts, tally, walk>>
    /\ UNCHANGED <<exportVars, secondVars>>

\* the with block ends after the summary; the next entry, or the return
ProcExit ==
    /\ pc = "exiting"
    /\ ExitScope
    /\ entriesLeft' = entriesLeft - 1
    /\ pc' = IF entriesLeft' = 0 THEN "done" ELSE "entry"
    /\ UNCHANGED <<nKeys, idx, counts, tally, summaries, walk>>
    /\ UNCHANGED <<exportVars, secondVars>>

\* an exception that no except clause names leaves the with block and the call
ProcUnwind ==
    /\ pc = "unwinding"
    /\ ExitScope
    /\ pc' = "raised"
    /\ UNCHANGED <<entriesLeft, nKeys, idx, counts, tally, summaries, walk>>
    /\ UNCHANGED <<exportVars, secondVars>>

NextProcess ==
    \/ ProcCall
    \/ ProcEntry
    \/ ProcKey
    \/ ProcSummary
    \/ ProcExit
    \/ ProcUnwind

SpecProcess == Init /\ [][NextProcess]_vars

\* ---------------------------------------------- process(...) on a directory
MaxFiles == 3

\* the files os.walk finds: an mbox file, a file that holds no line starting
\* with "From " (a text, an image), and a file that open() refuses
FileKinds == {"mbox", "text", "unreadable"}

\* the listings of a directory entry, in the order os.walk gives them
Listings == UNION {[1..n -> FileKinds] : n \in 0..MaxFiles}

\* mailbox.mbox(entry) that rejects a file without any "From " line
open_source_strict(kind) ==
    [raised |-> kind # "mbox",
     keys |-> IF kind = "mbox" THEN 0..MaxKeys ELSE {0}]

\* mailbox.mbox(entry) and box.iterkeys(): open() raises on a file it may
\* not read; a file without any "From " line reads as a mailbox without
\* keys; keys is the set of key counts an entry of the kind may have
open_source(kind) ==
    [raised |-> kind = "unreadable",
     keys |-> IF kind = "mbox" THEN 0..MaxKeys ELSE {0}]

\* the file the walk stands at
CurrentFile == walk[Len(walk) - entriesLeft + 1]

\* what box[key] does in the mailboxes under the directory
WalkReads == {Read("msg", MsgMarch), Read("msg", MsgNoDate), Read("OSError", NoMsg)}

\* process(archive_dir, directory): os.walk lists the files, and process is
\* called again with each of them
ProcCallDir ==
    /\ pc = "idle"
    /\ ~isOpen
    /\ \E w \in Listings :
         /\ walk' = w
         /\ entriesLeft' = Len(w)
         /\ pc' = IF w = <<>> THEN "done" ELSE "entry"
    /\ UNCHANGED archiveVars
    /\ UNCHANGED <<nKeys, idx, counts, tally, summaries>>
    /\ UNCHANGED <<exportVars, secondVars>>

\* box = mailbox.mbox(entry); with MailArchive(archive_dir) as archive:
\* ok, duplicate, error = 0, 0, 0, for a file of the walk
ProcEntryDir ==
    /\ pc = "entry"
    /\ entriesLeft > 0
    /\ walk # <<>>
    /\ ~open_source(CurrentFile).raised
    /\ \E n \in open_source(CurrentFile).keys : nKeys' = n
    /\ EnterScope
    /\ idx' = 0
    /\ counts' = Counts(0, 0, 0)
    /\ tally' = Tally(0, 0, 0, 0, 0, 0)
    /\ pc' = "keys"
    /\ UNCHANGED <<entriesLeft, summaries, walk>>
    /\ UNCHANGED <<exportVars, secondVars>>

\* mailbox.mbox(entry) raises: the exception leaves the inner call of
\* process, the loops over os.walk and the outer call
ProcOpenFails ==
    /\ pc = "entry"
    /\ entriesLeft > 0
    /\ walk # <<>>
    /\ open_source(CurrentFile).raised
    /\ pc' = "raised"
    /\ UNCHANGED archiveVars
    /\ UNCHANGED <<entriesLeft, nKeys, idx, counts, tally, summaries, walk>>
    /\ UNCHANGED <<exportVars, secondVars>>

\* one round of the loop over a mailbox under the directory
WalkKey == ProcKeyFrom(WalkReads)

NextWalk ==
    \/ ProcCallDir
    \/ ProcEntryDir
    \/ ProcOpenFails
    \/ WalkKey
    \/ ProcSummary
    \/ ProcExit
    \/ ProcUnwind

SpecWalk == Init /\ [][NextWalk]_vars

\* -------------------------------------------------------------- export(...)
\* email.utils.parseaddr(...)[1]: the address without the display name
ParseAddr(s) == IF s = "Ann <ANN@X.COM>" THEN "ANN@X.COM" ELSE s

\* str.lower() on the addresses of the messages
Lower(s) == IF s = "A@X.COM" THEN "a@x.com"
            ELSE IF s = "ANN@X.COM" THEN "ann@x.com"
            ELSE s

\* a line of the output: the header line or the line of a message, of which
\* the columns timestamp and sender are kept
Row(kind, utc, sender) ==
    [kind |-> kind, year |-> utc.year, month |-> utc.month, day |-> utc.day,
     hour |-> utc.hour, sender |-> sender]
HeaderRow == Row("header", [year |-> 0, month |-> 0, day |-> 0, hour |-> 0], "")

\* the body of the loop without the test of msg.get('From')
export_row_always(m) ==
    LET parsed == ParsedateTz(m.Date)
        stamp == MktimeTz(parsed)
        utc == UtcFromTimestamp(stamp.ts)
    IN IF ~parsed.ok \/ stamp.raised \/ utc.raised THEN [raised |-> TRUE, rows |-> <<>>]
       ELSE [raised |-> FALSE, rows |-> <<Row("row", utc, Lower(ParseAddr(m.From)))>>]

\* the body of the loop of export for one message: nothing written when
\* msg.get('From') is false, an exception when the Date is none that
\* mktime_tz and utcfromtimestamp take, else one line
export_row(m) ==
    LET parsed == ParsedateTz(m.Date)
        stamp == MktimeTz(parsed)
        utc == UtcFromTimestamp(stamp.ts)
    IN IF m.From \in {NoHeader, ""} THEN [raised |-> FALSE, rows |-> <<>>]
       ELSE IF ~parsed.ok \/ stamp.raised \/ utc.raised THEN [raised |-> TRUE, rows |-> <<>>]
       ELSE [raised |-> FALSE, rows |-> <<Row("row", utc, Lower(ParseAddr(m.From)))>>]

RECURSIVE export_rows(_, _)
\* the loop of export over the messages the iteration yields, out being the
\* lines written so far; it ends at the first exception
export_rows(msgs, out) ==
    IF msgs = <<>> THEN [raised |-> FALSE, rows |-> out]
    ELSE LET r == export_row(Head(msgs))
         IN IF r.raised THEN [raised |-> TRUE, rows |-> out]
            ELSE export_rows(Tail(msgs), out \o r.rows)

\* with MailArchive(archive_dir) as archive: output.write(header)
ExportOpen ==
    /\ pc = "idle"
    /\ enters < MaxScopes
    /\ EnterScope
    /\ output' = <<HeaderRow>>
    /\ pc' = "exporting"
    /\ UNCHANGED <<entriesLeft, nKeys, idx, counts, tally, summaries, walk>>
    /\ UNCHANGED secondVars

\* for msg in archive: ... output.write(...)
ExportLoop ==
    /\ pc = "exporting"
    /\ \E st \in {iter(Archive, names) : names \in Orders(Listdir(Archive, seenFile))} :
         LET r == export_rows(st.yielded, output)
         IN /\ WithinOpens(st)
            /\ Commit(st)
            /\ yielded' = st.yielded
            /\ opened' = st.opened
            /\ output' = r.rows
            /\ last' = Call("iter", NoMsg, IF r.raised THEN "TypeError" ELSE "ok")
    /\ pc' = "exported"
    /\ UNCHANGED <<seenFile, isOpen, accepted, enters, exits>>
    /\ UNCHANGED <<entriesLeft, nKeys, idx, counts, tally, summaries, walk>>
    /\ UNCHANGED secondVars

\* the with block of export ends
ExportClose ==
    /\ pc = "exported"
    /\ ExitScope
    /\ pc' = "idle"
    /\ UNCHANGED <<entriesLeft, nKeys, idx, counts, tally, summaries, walk>>
    /\ UNCHANGED <<exportVars, secondVars>>

\* a client that builds an archive and exports it
NextExport ==
    \/ Enter
    \/ \E m \in ExportMsgs : Add(m)
    \/ Iterate
    \/ Exit
    \/ ExportOpen
    \/ ExportLoop
    \/ ExportClose

SpecExport == Init /\ [][NextExport]_vars

\* ------------------------------------------- two archives on one directory
\* the part of the state the methods of the second archive work on: its own
\* cache and ledger, and the files of the directory
ArchiveB == [boxes |-> boxesB, files |-> files, opens |-> opensB,
             unclosed |-> unclosedB, seen |-> seenB, ret |-> NoHandle,
             outcome |-> "ok", yielded |-> <<>>, opened |-> <<>>]

\* the messages of the two clients
TwoMsgs == {MsgMarch, MsgNewYear}

\* with MailArchive(directory) as archive: in the second client; nothing
\* tests whether another archive is open on the directory
EnterB ==
    /\ pc = "idle"
    /\ entersB < MaxScopes
    /\ ~isOpenB
    /\ isOpenB' = TRUE
    /\ boxesB' = EmptyMap
    /\ opensB' = EmptyMap
    /\ seenB' = enter(seenFile)
    /\ entersB' = entersB + 1
    /\ last' = Call("enter", NoMsg, "ok")
    /\ UNCHANGED unclosedB
    /\ UNCHANGED <<files, seenFile, isOpen, seen, boxes, opens, unclosed, yielded,
                   opened, accepted, enters, exits>>
    /\ UNCHANGED <<processVars, exportVars>>

\* archive.add(m) in the second client
AddB(m) ==
    /\ pc = "idle"
    /\ isOpenB
    /\ LET st == add(ArchiveB, m)
       IN /\ WithinOpens(st)
          /\ boxesB' = st.boxes
          /\ files' = st.files
          /\ opensB' = st.opens
          /\ unclosedB' = st.unclosed
          /\ seenB' = st.seen
          /\ last' = Call("add", m, st.outcome)
          /\ accepted' = IF st.outcome = "DuplicateError" THEN accepted
                         ELSE accepted \cup {Bytes(m)}
    /\ UNCHANGED <<isOpenB, entersB>>
    /\ UNCHANGED <<seenFile, isOpen, seen, boxes, opens, unclosed, yielded, opened,
                   enters, exits>>
    /\ UNCHANGED <<processVars, exportVars>>

\* leaving the with block in the second client
ExitB ==
    /\ pc = "idle"
    /\ isOpenB
    /\ unclosedB' = exit_close(ArchiveB)
    /\ boxesB' = EmptyMap
    /\ seenFile' = exit(ArchiveB)
    /\ seenB' = {}
    /\ isOpenB' = FALSE
    /\ last' = Call("exit", NoMsg, "ok")
    /\ UNCHANGED <<opensB, entersB>>
    /\ UNCHANGED <<files, isOpen, seen, boxes, opens, unclosed, yielded, opened,
                   accepted, enters, exits>>
    /\ UNCHANGED <<processVars, exportVars>>

\* two clients whose scopes may overlap
NextTwo ==
    \/ Enter
    \/ \E m \in TwoMsgs : Add(m)
    \/ Exit
    \/ EnterB
    \/ \E m \in TwoMsgs : AddB(m)
    \/ ExitB

SpecTwo == Init /\ [][NextTwo]_vars

\* ------------------------------------------------- calls outside a scope
\* MailArchive.add before __enter__ or after __exit__: there is no
\* self.seen, and the test of the ledger raises AttributeError
add_closed(st, m) == [st EXCEPT !.outcome = "AttributeError"]

RECURSIVE iter_closed(_, _)
\* MailArchive.__iter__ before __enter__ or after __exit__, run over the
\* names of a listing: a name the pattern rejects is passed over, and at
\* the first one it takes there is no self.boxes to look it up in
iter_closed(st, names) ==
    IF names = <<>> THEN st
    ELSE IF ~ReMatch(Head(names)) THEN iter_closed(st, Tail(names))
    ELSE [st EXCEPT !.outcome = "AttributeError"]

\* archive.add(m) on an archive that is not open
AddOutside(m) ==
    /\ pc = "idle"
    /\ ~isOpen
    /\ LET st == add_closed(Archive, m)
       IN /\ Commit(st)
          /\ last' = Call("add", m, st.outcome)
    /\ yielded' = <<>>
    /\ opened' = <<>>
    /\ UNCHANGED <<seenFile, isOpen, accepted, enters, exits>>
    /\ UNCHANGED <<processVars, exportVars, secondVars>>

\* for msg in archive: ... on an archive that is not open
IterateOutside ==
    /\ pc = "idle"
    /\ ~isOpen
    /\ \E st \in {iter_closed(Archive, names) : names \in Orders(Listdir(Archive, seenFile))} :
         /\ Commit(st)
         /\ yielded' = st.yielded
         /\ opened' = st.opened
         /\ last' = Call("iter", NoMsg, st.outcome)
    /\ UNCHANGED <<seenFile, isOpen, accepted, enters, exits>>
    /\ UNCHANGED <<processVars, exportVars, secondVars>>

\* the messages of the client that calls outside a scope
OutsideMsgs == {MsgMarch, MsgNoDate}

\* a client that also calls add and iterates before it opens the archive
\* and after it closed it
NextOutside ==
    \/ Enter
    \/ \E m \in OutsideMsgs : Add(m)
    \/ Iterate
    \/ Exit
    \/ \E m \in OutsideMsgs : AddOutside(m)
    \/ IterateOutside

SpecOutside == Init /\ [][NextOutside]_vars

\* ------------------------------------------------------------- properties
P202403 == <<"2", "0", "2", "4", "0", "3">>
P202401 == <<"2", "0", "2", "4", "0", "1">>

\* a step in which add(m) was called and did or signalled something
AddStep(m) == last'.op = "add" /\ last'.msg = m /\ last' # last

\* the Date header is there and parsedate_tz reads a date in it
Parseable(m) == m.Date.kind = "date"

\* the UTC instant of a Date header, in hours since the epoch
InstantOf(d) == Timegm(d.year, d.month, d.day, d.hour) - (IF d.hasTz THEN d.tz ELSE 0)

\* first hour of a month, and of the month after it
MonthStart(y, mo) == Timegm(y, mo, 1, 0)
MonthEnd(y, mo) == IF mo = 12 THEN Timegm(y + 1, 1, 1, 0) ELSE Timegm(y, mo + 1, 1, 0)

\* the date is one a datetime can hold once converted to UTC
Representable(m) ==
    /\ Parseable(m)
    /\ m.Date.year >= MINYEAR /\ m.Date.year <= MAXYEAR
    /\ InstantOf(m.Date) >= MonthStart(MINYEAR, 1)
    /\ InstantOf(m.Date) < MonthEnd(MAXYEAR, 12)

DigitValue(c) == CHOOSE i \in 0..9 : DigitChar[i + 1] = c

\* a name of exactly six digits, and the year and month it spells
SixDigits(name) == Len(name) = 6 /\ \A i \in 1..6 : IsDigit(name[i])
YearOfName(name) == DigitValue(name[1]) * 1000 + DigitValue(name[2]) * 100
                    + DigitValue(name[3]) * 10 + DigitValue(name[4])
MonthOfName(name) == DigitValue(name[5]) * 10 + DigitValue(name[6])

\* a partition name as iteration is specified to accept it
YearMonthName(name) == SixDigits(name) /\ name[1] \in {"1", "2"}

\* copies of a byte content in a file
Copies(fs, name, content) ==
    IF name \notin DOMAIN fs THEN 0
    ELSE Cardinality({i \in 1..Len(fs[name]) : Bytes(fs[name][i]) = content})

\* the name of the month a date falls in, in UTC
MonthNameOf(m) ==
    CHOOSE name \in {FormatName(y, mo) : y \in {m.Date.year - 1, m.Date.year, m.Date.year + 1},
                                         mo \in 1..12} :
        /\ MonthStart(YearOfName(name), MonthOfName(name)) <= InstantOf(m.Date)
        /\ InstantOf(m.Date) < MonthEnd(YearOfName(name), MonthOfName(name))

\* the ledger of the archive: in memory inside a scope, on disk outside
Ledger == IF isOpen THEN seen ELSE IF seenFile.exists THEN seenFile.data ELSE {}

\* a message of this byte content stands in some partition
Stored(fs, content) == \E name \in DOMAIN fs : SixDigits(name) /\ Copies(fs, name, content) > 0

C3_reopen ==
    [][/\ ~isOpen /\ isOpen' =>
            /\ seen' = {Md5(c) : c \in accepted}
            /\ exits = 0 => seen' = {}
       /\ \A m \in Msgs : AddStep(m) /\ Bytes(m) \in accepted
            => last'.outcome = "DuplicateError"]_vars

\* a message stored in the first scope is refused in the second, before
\* anything opened its partition there
C3_witness ==
    /\ last = Call("add", MsgNewYear, "DuplicateError")
    /\ enters = 2
    /\ P202401 \notin DOMAIN boxes
    /\ Copies(files, P202401, Bytes(MsgNewYear)) = 1

\* C4 as claimed: a fingerprint is in the ledger iff a message with that
\* byte content was appended to some partition
C4_claimed ==
    \A m \in Msgs : Md5(Bytes(m)) \in Ledger <=> Stored(files, Bytes(m))

\* C4 amended: a fingerprint is in the ledger iff an add of exactly that
\* byte content got past the duplicate test, and every message appended to a
\* partition has its fingerprint in the ledger (a recorded fingerprint need
\* not have a stored message: add records it before it looks at the Date)
C4_amended ==
    \A m \in Msgs :
        /\ Md5(Bytes(m)) \in Ledger <=> Bytes(m) \in accepted
        /\ Stored(files, Bytes(m)) => Md5(Bytes(m)) \in Ledger

\* the ledger holds a stored message and an undated one that is stored nowhere
C4_witness ==
    /\ Md5(Bytes(MsgMarch)) \in Ledger /\ Stored(files, Bytes(MsgMarch))
    /\ Md5(Bytes(MsgNoDate)) \in Ledger /\ ~Stored(files, Bytes(MsgNoDate))

\* C5: every message in the partition named YYYYMM has a Date whose UTC
\* instant lies in month MM of year YYYY (the UTC month, not the month
\* written in the header)
C5_utc_month ==
    \A name \in DOMAIN files : SixDigits(name) =>
        \A i \in 1..Len(files[name]) :
            /\ Parseable(files[name][i])
            /\ MonthStart(YearOfName(name), MonthOfName(name)) <= InstantOf(files[name][i].Date)
            /\ InstantOf(files[name][i].Date) < MonthEnd(YearOfName(name), MonthOfName(name))

\* the message dated 31 Dec 2023 23:00 -0100 stands in 202401
C5_witness ==
    /\ P202401 \in DOMAIN files
    /\ Copies(files, P202401, Bytes(MsgNewYear)) = 1
    /\ MsgNewYear.Date.year = 2023 /\ MsgNewYear.Date.month = 12

\* C6: an add that signals DuplicateError leaves the in-memory ledger, the
\* handle cache and every partition as they were
C6_duplicate_frame ==
    [][\A m \in Msgs : AddStep(m) /\ last'.outcome = "DuplicateError"
        => seen' = seen /\ boxes' = boxes /\ files' = files /\ opens' = opens]_vars

\* a duplicate was signalled inside a scope that holds a handle
C6_witness ==
    /\ isOpen
    /\ last.op = "add" /\ last.outcome = "DuplicateError"
    /\ DOMAIN boxes # {}

\* C8 as claimed: only names of exactly six digits that begin with 1 or 2
\* are opened as partitions, and only their messages are yielded
C8_claimed ==
    /\ \A name \in DOMAIN opens : YearMonthName(name)
    /\ \A i \in 1..Len(yielded) :
         \E name \in DOMAIN files : YearMonthName(name) /\ Copies(files, name, Bytes(yielded[i])) > 0

\* C7: every scope of process is closed exactly once, on the normal path and
\* when an exception leaves the with block; the close closes every cached
\* handle, clears the cache and writes the in-memory ledger as it stands
C7_close_once ==
    [][/\ isOpen /\ ~isOpen' =>
            /\ exits' = exits + 1
            /\ boxes' = EmptyMap
            /\ unclosed' \cap Range(boxes) = {}
            /\ seenFile' = [exists |-> TRUE, data |-> seen]
       /\ pc' \in {"entry", "done", "raised"} => ~isOpen' /\ exits' = enters'
       /\ exits' <= enters' /\ enters' <= exits' + 1]_vars

\* a ValueError left the scope after a message was stored in it: the handle
\* is closed and the ledger on disk holds both fingerprints
C7_witness ==
    /\ pc = "raised"
    /\ enters = 1 /\ exits = 1
    /\ Stored(files, Bytes(MsgMarch))
    /\ seenFile.exists
    /\ {Md5(Bytes(MsgMarch)), Md5(Bytes(MsgFarYear))} \subseteq seenFile.data
    /\ unclosed = {}

\* C9 as claimed: within a scope a name is opened at most once, and a
\* handle in the cache stays there, the same, until close
C9_claimed ==
    [][isOpen /\ isOpen' =>
        /\ \A n \in DOMAIN opens' : opens'[n] <= 1
        /\ \A n \in DOMAIN boxes : n \in DOMAIN boxes' /\ boxes'[n] = boxes[n]]_vars

\* the conditions the try statement names, and the normal return
Classified == {"ok", "KeyError", "UnicodeDecodeError", "DuplicateError", "UndatedError"}

\* C10: no classified condition leaves the loop, every key is visited, and
\* the summary counts are: ok the adds that returned, duplicate the adds
\* that signalled DuplicateError, error the decode failures plus the adds
\* that signalled UndatedError; together the keys but those not found
C10_summary ==
    [][/\ pc = "keys" /\ pc' = "unwinding" => last'.outcome \notin Classified
       /\ pc = "keys" /\ pc' = "keys" /\ idx' # idx => last'.outcome \in Classified
       /\ pc = "keys" /\ pc' = "exiting" =>
            LET s == summaries'[Len(summaries')]
            IN /\ Len(summaries') = Len(summaries) + 1
               /\ tally.visited = nKeys
               /\ s.ok = tally.addOk
               /\ s.duplicate = tally.addDup
               /\ s.error = tally.decode + tally.addUndated
               /\ s.ok + s.duplicate + s.error = nKeys - tally.keyError]_vars

\* a summary of one stored, one duplicate and one undated message, after a
\* key that was not found
C10_witness ==
    /\ pc = "exiting"
    /\ summaries # <<>>
    /\ summaries[Len(summaries)] = Counts(1, 1, 1)
    /\ tally.addUndated = 1

\* the files of a listing that are not mbox files
NotMbox(w) == {i \in 1..Len(w) : w[i] # "mbox"}

\* C11 as claimed: in a directory with one file that cannot be handled as a
\* mailbox, that file does not abort the walk
C11_claimed ==
    [][walk # <<>> /\ Cardinality(NotMbox(walk)) = 1 /\ pc = "entry"
       /\ CurrentFile # "mbox" => pc' # "raised"]_vars

\* C11 amended: in a directory with one file that is not in the mailbox
\* format (no line starts with "From "), that file reads as a mailbox
\* without keys and the walk goes on: every summary has the counts of C10,
\* and when the call returns every file of the directory has its summary
\* (a file that open() refuses does abort the walk)
C11_amended ==
    [][walk' # <<>> /\ Cardinality(NotMbox(walk')) = 1
       /\ (\A i \in NotMbox(walk') : walk'[i] = "text") =>
        /\ pc = "entry" /\ pc' # pc /\ CurrentFile = "text" => pc' = "keys" /\ nKeys' = 0
        /\ pc = "keys" /\ pc' = "exiting" =>
             LET s == summaries'[Len(summaries')]
             IN /\ s.ok = tally.addOk
                /\ s.duplicate = tally.addDup
                /\ s.error = tally.decode + tally.addUndated
                /\ CurrentFile = "text" => s = Counts(0, 0, 0)
        /\ pc' = "done" => Len(summaries') = Len(walk')]_vars

\* a directory of a mailbox, a text and a mailbox was walked to its end
C11_witness ==
    /\ pc = "done"
    /\ walk = <<"mbox", "text", "mbox">>
    /\ summaries = <<Counts(1, 0, 1), Counts(0, 0, 0), Counts(0, 1, 0)>>

\* C14: a condition the try statement does not name leaves the loop, the
\* with block and the call: after it no key is visited, no summary is
\* logged, no entry is opened and nothing is added to the archive
C14_propagates ==
    [][/\ pc = "keys" /\ idx' # idx /\ last'.outcome \notin Classified => pc' = "unwinding"
       /\ pc \in {"unwinding", "raised"} =>
            /\ pc' \in {"unwinding", "raised"}
            /\ idx' = idx
            /\ summaries' = summaries
            /\ entriesLeft' = entriesLeft
            /\ enters' = enters
            /\ files' = files]_vars

\* the first of two entries raised at a key that was not its last one
C14_witness ==
    /\ pc = "raised"
    /\ entriesLeft = 2
    /\ idx < nKeys
    /\ summaries = <<>>
    /\ ~isOpen

\* copies of a byte content in all the partitions together
TotalCopies(fs, content) ==
    Cardinality({<<name, i>> \in UNION {{<<n, j>> : j \in 1..Len(fs[n])} :
                                         n \in {x \in DOMAIN fs : SixDigits(x)}} :
                    Bytes(fs[name][i]) = content})

\* C13: add puts the fingerprint in the ledger before it appends, also when
\* the append fails; with scopes used one after the other and appends that
\* may fail, an add of bytes whose add was tried before signals
\* DuplicateError, and no byte content stands more than once in the
\* partitions
C13_retry_duplicate ==
    [][/\ \A m \in FaultMsgs :
            /\ AddStep(m) /\ last'.outcome # "DuplicateError" => Md5(Bytes(m)) \in seen'
            /\ AddStep(m) /\ Bytes(m) \in accepted => last'.outcome = "DuplicateError"
            /\ TotalCopies(files', Bytes(m)) <= 1
       /\ isOpen /\ ~isOpen' => seenFile'.data = {Md5(c) : c \in accepted}]_vars

\* the append of a message failed in one scope and its retry was refused as
\* a duplicate in the next, the message being in no partition
C13_witness ==
    /\ enters = 2
    /\ isOpen
    /\ last = Call("add", MsgMarch, "DuplicateError")
    /\ TotalCopies(files, Bytes(MsgMarch)) = 0
    /\ P202403 \in DOMAIN files
    /\ Md5(Bytes(MsgMarch)) \in seenFile.data

\* the fingerprints a ledger file holds, none when there is no file
OnDisk(f) == IF f.exists THEN f.data ELSE {}

\* C18: with scopes used one after the other the ledger on disk only grows:
\* open loads it, an add that does not signal DuplicateError puts its
\* fingerprint in and nothing else changes the ledger in memory, and close
\* writes the ledger in memory, which is the loaded one and the
\* fingerprints of the adds that were not duplicates, undated ones included
C18_ledger_grows ==
    [][/\ OnDisk(seenFile) \subseteq OnDisk(seenFile')
       /\ ~isOpen /\ isOpen' => seen' = OnDisk(seenFile)
       /\ isOpen /\ isOpen' =>
            seen' = seen \cup {Md5(Bytes(m)) : m \in {x \in Msgs :
                                  AddStep(x) /\ last'.outcome # "DuplicateError"}}
       /\ isOpen /\ ~isOpen' =>
            /\ seenFile'.data = seen
            /\ OnDisk(seenFile) \subseteq seenFile'.data
            /\ seenFile'.data = OnDisk(seenFile) \cup {Md5(c) : c \in accepted}]_vars

\* a second scope loaded a ledger, took an undated message and wrote both
\* fingerprints back
C18_witness ==
    /\ exits = 2
    /\ ~isOpen
    /\ seenFile.data = {Md5(Bytes(MsgMarch)), Md5(Bytes(MsgNoDate))}
    /\ accepted = {Bytes(MsgMarch), Bytes(MsgNoDate)}

\* the line export is to write for a message
ExpectedRow(m) == Row("row", UtcFromTimestamp(InstantOf(m.Date)), Lower(ParseAddr(m.From)))

\* the header line and then the lines of a sequence of messages, in order
ExpectedOutput(sel) == <<HeaderRow>> \o [i \in 1..Len(sel) |-> ExpectedRow(sel[i])]

HasFromHeader(m) == m.From # NoHeader
HasSender(m) == m.From \notin {NoHeader, ""}

\* C12 as claimed: export writes the header line and then, in the order of
\* the iteration, one line for every message that has a From header and
\* none for a message that has no From header
C12_claimed ==
    pc = "exported" => output = ExpectedOutput(SelectSeq(yielded, HasFromHeader))

\* C12 amended: export writes the header line and then, in the order of
\* the iteration, one line for every message whose From header is there and
\* is not empty, and none for a message whose From header is absent or empty
C12_amended ==
    pc = "exported" => output = ExpectedOutput(SelectSeq(yielded, HasSender))

\* an archive with a message without From header, one with an empty From
\* header and one with a sender was exported as a header and one line
C12_witness ==
    /\ pc = "exported"
    /\ {MsgMarch, MsgNoFrom, MsgEmptyFrom} \subseteq Range(yielded)
    /\ Len(yielded) = 3
    /\ output = <<HeaderRow, Row("row", [year |-> 2024, month |-> 3, day |-> 15, hour |-> 10], "a@x.com")>>

\* C19: no step of export changes the archive: every file holds the same
\* messages in the same order, no file is created, and the ledger on disk
\* holds the same fingerprints
C19_export_read_only ==
    [][(pc \in {"exporting", "exported"} \/ pc' \in {"exporting", "exported"})
       => (files' = files /\ OnDisk(seenFile') = OnDisk(seenFile))]_vars

\* an archive built in one scope was exported in the next
C19_witness ==
    /\ pc = "idle"
    /\ enters = 2
    /\ exits = 2
    /\ Len(output) = 2
    /\ Stored(files, Bytes(MsgMarch))
    /\ Stored(files, Bytes(MsgNoFrom))
    /\ OnDisk(seenFile) = {Md5(Bytes(MsgMarch)), Md5(Bytes(MsgNoFrom))}

RECURSIVE ConcatFiles(_, _)
\* the messages of the files of a sequence of names, file after file
ConcatFiles(fs, names) ==
    IF names = <<>> THEN <<>>
    ELSE fs[Head(names)] \o ConcatFiles(fs, Tail(names))

\* the year of the date of a message, in UTC
UtcYear(m) == UtcFromTimestamp(InstantOf(m.Date)).year

\* a message whose year the partition pattern does not take
OutOfPattern(m) == Parseable(m) /\ (UtcYear(m) < 1000 \/ UtcYear(m) > 2999)

\* C15: an iteration run to its end opens every partition whose name fits
\* the pattern exactly once and yields the messages of the files it opens,
\* each once and in the order of its file; a stored message of a year
\* before 1000 or after 2999 stands in a partition the iteration does not
\* open, and is neither yielded nor exported
C15_orphans ==
    last.op = "iter" =>
        /\ \A n \in DOMAIN files : YearMonthName(n) =>
               Cardinality({i \in 1..Len(opened) : opened[i] = n}) = 1
        /\ yielded = ConcatFiles(files, opened)
        /\ \A m \in ExportMsgs : OutOfPattern(m) /\ Stored(files, Bytes(m)) =>
               /\ Copies(files, FormatName(UtcYear(m), m.Date.month), Bytes(m)) = 1
               /\ ~YearMonthName(FormatName(UtcYear(m), m.Date.month))
               /\ \A i \in 1..Len(opened) : opened[i] # FormatName(UtcYear(m), m.Date.month)
               /\ \A i \in 1..Len(yielded) : Bytes(yielded[i]) # Bytes(m)
               /\ pc = "exported" => \A i \in 1..Len(output) : output[i].year # UtcYear(m)

\* an archive with a message of the year 999, one of the year 3000 and one
\* of 2024 was exported: only the last one was yielded
C15_witness ==
    /\ pc = "exported"
    /\ last.op = "iter"
    /\ Stored(files, Bytes(MsgYear999))
    /\ Stored(files, Bytes(MsgYear3000))
    /\ FormatName(999, 1) \in DOMAIN files
    /\ FormatName(3000, 1) \in DOMAIN files
    /\ yielded = <<MsgMarch>>
    /\ Len(output) = 2

\* C17 as claimed: add and iteration on an archive that is not open fail,
\* whatever the directory holds, and change neither the ledger file nor a
\* partition
C17_claimed ==
    [][~isOpen /\ ~isOpen' /\ last' # last /\ last'.op \in {"add", "iter"} =>
        /\ last'.outcome # "ok"
        /\ files' = files
        /\ seenFile' = seenFile]_vars

\* C16: nothing keeps two scopes from being open at once, and each close
\* writes the ledger of the archive that closes over whatever the file
\* holds: after both closed the file is the ledger of the one that closed
\* last
C16_last_writer_wins ==
    [][/\ isOpen /\ ~isOpen' => seenFile'.exists /\ seenFile'.data = seen
       /\ isOpenB /\ ~isOpenB' => seenFile'.exists /\ seenFile'.data = seenB
       /\ ~isOpen /\ isOpen' => seen' = OnDisk(seenFile)
       /\ ~isOpenB /\ isOpenB' => seenB' = OnDisk(seenFile)]_vars

\* two scopes overlapped, the one that had added nothing closed last, the
\* fingerprint of the other was lost and the message was stored again
C16_witness ==
    /\ ~isOpen
    /\ ~isOpenB
    /\ enters = 2
    /\ entersB = 1
    /\ Copies(files, P202403, Bytes(MsgMarch)) = 2
    /\ accepted = {Bytes(MsgMarch)}

====
